---- MODULE Spec2Model ----
(***************************************************************************)
(* A model of the DNS-over-HTTPS message codec of go-doh-client: the        *)
(* response decoder (parseResponse), the record parsers (parser.parse and   *)
(* the parseX methods), the name decoder (parser.parseName), the query      *)
(* encoder (encodeQuery) and the Lookup<T> methods of the Resolver.         *)
(*                                                                          *)
(* Bytes are naturals in 0..255.  A Go string is the sequence of its bytes. *)
(* A Go slice is a record [a, lo, hi]: the backing array a, and the 0-based *)
(* half-open window lo..hi-1 of it the slice shows.  Its length is hi - lo  *)
(* and its capacity reaches to the end of the backing array, as it does for *)
(* every slice the decoder derives from the response buffer.  A run-time    *)
(* panic (index or slice bounds out of range) is the outcome "panic"; the   *)
(* unbounded recursion of a pointer cycle is the outcome "overflow".        *)
(* A uint32 is the pair <<high 16 bits, low 16 bits>>, so that every value  *)
(* up to 2^32 - 1 is kept; an int32 is an integer.                          *)
(***************************************************************************)
EXTENDS Integers, Sequences, FiniteSets, TLC

VARIABLES
    res,     \* the response buffer handed to parseResponse (a slice)
    sent,    \* what the server put on the wire: the parts the buffer was built from
    call,    \* the arguments of the call that is made
    pc,      \* where the call stands: "ready" before parseResponse, "done" after it
    out,     \* the outcome of the call
    clock,   \* time.Now().Unix()
    query,   \* the query that encodeQuery returned first
    trace    \* the steps a call has taken so far, in order

vars == <<res, sent, call, pc, out, clock, query, trace>>

-----------------------------------------------------------------------------
(* Program constants *)

DNSMsgHeaderLen == 12

A == 1
NS == 2
CNAME == 5
SOA == 6
PTR == 12
MX == 15
TXT == 16
AAAA == 28
SRV == 33

ClassIN == 1
CS == 2
CH == 3
HS == 4
ANYCLASS == 255

\* A variant of dnsErrors with the entries of codes 2 and 3 exchanged.
dnsErrors_Exchanged ==
    << "nil", "ErrFormatError", "ErrNameError", "ErrServerFailure",
       "ErrNotImplemented", "ErrRefused" >>

dnsErrors ==
    << "nil", "ErrFormatError", "ErrServerFailure", "ErrNameError",
       "ErrNotImplemented", "ErrRefused" >>

-----------------------------------------------------------------------------
(* Go slices *)

NilSlice == [a |-> <<>>, lo |-> 0, hi |-> 0]

\* A slice over a fresh array holding bytes bs followed by spare capacity.
MakeSlice(bs, spare) == [a |-> bs \o spare, lo |-> 0, hi |-> Len(bs)]

len(s) == s.hi - s.lo
cap(s) == Len(s.a) - s.lo

\* s[i] is in range (an index is checked against the length).
InIndex(s, i) == 0 <= i /\ i < len(s)
\* s[x:y] is in range (the upper bound is checked against the capacity).
InSlice(s, x, y) == 0 <= x /\ x <= y /\ y <= cap(s)
\* s[x:] is in range (the upper bound defaults to the length).
InSliceFrom(s, x) == 0 <= x /\ x <= len(s)

At(s, i) == s.a[s.lo + i + 1]
Sub(s, x, y) == [a |-> s.a, lo |-> s.lo + x, hi |-> s.lo + y]
From(s, x) == [a |-> s.a, lo |-> s.lo + x, hi |-> s.hi]
Bytes(s) == [k \in 1..len(s) |-> s.a[s.lo + k]]

\* binary.BigEndian.Uint16 / Uint32 of the 2 / 4 bytes of s from x on.
Uint16(s, x) == At(s, x) * 256 + At(s, x + 1)
Uint32(s, x) == <<Uint16(s, x), Uint16(s, x + 2)>>

\* A conversion that keeps the low 16 bits only.
int32_LowHalf(v) == v[2]

\* int32(v) of a uint32 v: two's complement, v - 2^32 when v >= 2^31.
int32(v) == IF v[1] >= 32768 THEN (v[1] - 65536) * 65536 + v[2] ELSE v[1] * 65536 + v[2]

Dot == 46
Colon == 58

\* strings.Join(ss, sep) with a one-byte separator.
RECURSIVE Join(_, _)
Join(ss, sep) ==
    IF Len(ss) = 0 THEN <<>>
    ELSE IF Len(ss) = 1 THEN ss[1]
    ELSE ss[1] \o <<sep>> \o Join(Tail(ss), sep)

\* strconv.Itoa of a byte.
RECURSIVE Itoa(_)
Itoa(v) == IF v < 10 THEN <<48 + v>> ELSE Itoa(v \div 10) \o <<48 + (v % 10)>>

HexDigit(d) == IF d < 10 THEN 48 + d ELSE 87 + d

\* fmt.Sprintf("%x", v).
RECURSIVE Hex(_)
Hex(v) == IF v < 16 THEN <<HexDigit(v)>> ELSE Hex(v \div 16) \o <<HexDigit(v % 16)>>

Panic == [st |-> "panic"]
Overflow == [st |-> "overflow"]

-----------------------------------------------------------------------------
(* parser.parseName *)

\* The loop of parseName on b, at cursor offset with the labels read so far.
\* pres is p.res.  seen holds the pointer targets whose decoding is still on the
\* call stack: a pointer to one of them starts the same decoding again, and so
\* recurses until the stack is exhausted.
RECURSIVE parseNameLoop(_, _, _, _, _)
parseNameLoop(pres, b, offset, labels, seen) ==
    IF ~InIndex(b, offset) THEN Panic
    ELSE LET length == At(b, offset) IN
         IF length = 0
         THEN [st |-> "ok", name |-> Join(labels, Dot), offset |-> offset + 1]
         ELSE IF length \div 64 = 3
         THEN IF ~InSlice(b, offset, offset + 2) THEN Panic
              ELSE LET ptr == Uint16(b, offset) % 16384 IN
                   IF ~InSliceFrom(pres, ptr) THEN Panic
                   ELSE IF ptr \in seen THEN Overflow
                   ELSE LET r == parseNameLoop(pres, From(pres, ptr), 0, <<>>,
                                               seen \cup {ptr})
                        IN IF r.st # "ok" THEN r
                           ELSE [st |-> "ok",
                                 name |-> Join(Append(labels, r.name), Dot),
                                 offset |-> offset + 2]
         ELSE IF ~InSlice(b, offset + 1, offset + length + 1) THEN Panic
              ELSE parseNameLoop(pres, b, offset + length + 1,
                                 Append(labels, Bytes(Sub(b, offset + 1, offset + length + 1))),
                                 seen)

\* parseName without the offset++ of the terminating zero byte
parseName_TerminatorNotCounted(pres, b) ==
    LET r == parseNameLoop(pres, b, 0, <<>>, {}) IN
    IF r.st = "ok" /\ At(b, r.offset - 1) = 0 THEN [r EXCEPT !.offset = @ - 1] ELSE r

parseName(pres, b) == parseNameLoop(pres, b, 0, <<>>, {})

-----------------------------------------------------------------------------
(* The record parsers.  Each returns Panic / Overflow, or [st |-> "ok", v |-> *)
(* the record], the record's kind being the Go type parse returns.            *)

Ok(v) == [st |-> "ok", v |-> v]

\* The untyped nil that parse returns when no parser matches.
NoRecord == [kind |-> "nil"]

parseA(pres, rdata) ==
    Ok([kind |-> "ARecord",
        IP4 |-> Join([i \in 1..len(rdata) |-> Itoa(At(rdata, i - 1))], Dot)])

\* The loop of parseAAAA: i advances by 2, each step slicing rdata[i:i+2].
RECURSIVE parseAAAALoop(_, _, _)
parseAAAALoop(rdata, i, ip) ==
    IF ~(i < len(rdata)) THEN Ok([kind |-> "AAAARecord", IP6 |-> Join(ip, Colon)])
    ELSE IF ~InSlice(rdata, i, i + 2) THEN Panic
    ELSE parseAAAALoop(rdata, i + 2, Append(ip, Hex(Uint16(rdata, i))))

parseAAAA(pres, rdata) == parseAAAALoop(rdata, 0, <<>>)

parseCNAME(pres, rdata) ==
    LET n == parseName(pres, rdata) IN
    IF n.st # "ok" THEN n ELSE Ok([kind |-> "CNAMERecord", CNAME |-> n.name])

parseMX(pres, rdata) ==
    IF ~InSlice(rdata, 0, 2) THEN Panic
    ELSE IF ~InSliceFrom(rdata, 2) THEN Panic
    ELSE LET n == parseName(pres, From(rdata, 2)) IN
         IF n.st # "ok" THEN n
         ELSE Ok([kind |-> "MXRecord", Pref |-> Uint16(rdata, 0), Host |-> n.name])

parseSRV(pres, rdata) ==
    IF ~InSlice(rdata, 4, 6) THEN Panic
    ELSE IF ~InSliceFrom(rdata, 6) THEN Panic
    ELSE LET n == parseName(pres, From(rdata, 6)) IN
         IF n.st # "ok" THEN n
         ELSE Ok([kind |-> "SRVRecord", Priority |-> Uint16(rdata, 0),
                  Weight |-> Uint16(rdata, 2), Port |-> Uint16(rdata, 4),
                  Target |-> n.name])

parseNS(pres, rdata) ==
    LET n == parseName(pres, rdata) IN
    IF n.st # "ok" THEN n ELSE Ok([kind |-> "NSRecord", Host |-> n.name])

parseTXT(pres, rdata) ==
    IF ~InIndex(rdata, 0) THEN Panic
    ELSE LET length == At(rdata, 0) IN
         IF ~InSlice(rdata, 1, length + 1) THEN Panic
         ELSE Ok([kind |-> "TXTRecord", TXT |-> Bytes(Sub(rdata, 1, length + 1))])

parseSOA(pres, rdata) ==
    LET n1 == parseName(pres, rdata) IN
    IF n1.st # "ok" THEN n1
    ELSE IF ~InSliceFrom(rdata, n1.offset) THEN Panic
    ELSE LET rd1 == From(rdata, n1.offset)
             n2 == parseName(pres, rd1)
         IN IF n2.st # "ok" THEN n2
            ELSE IF ~InSliceFrom(rd1, n2.offset) THEN Panic
            ELSE LET rd2 == From(rd1, n2.offset) IN
                 IF ~InSlice(rd2, 16, 20) THEN Panic
                 ELSE Ok([kind |-> "SOARecord",
                          PrimaryNS |-> n1.name,
                          RespMailbox |-> n2.name,
                          Serial |-> Uint32(rd2, 0),
                          Refresh |-> int32(Uint32(rd2, 4)),
                          Retry |-> int32(Uint32(rd2, 8)),
                          Expire |-> int32(Uint32(rd2, 12)),
                          Minimum |-> Uint32(rd2, 16)])

parsePTR(pres, rdata) ==
    LET n == parseName(pres, rdata) IN
    IF n.st # "ok" THEN n ELSE Ok([kind |-> "PTRRecord", PTR |-> n.name])

-----------------------------------------------------------------------------
(* parser.parse *)

\* A variant of internetClass that lets every class through.
internetClass_Any(c) == TRUE

\* A variant of internetClass that forgets ANYCLASS.
internetClass_OnlyIN(c) == c = ClassIN

\* The condition guarding the Internet-specific types (line 41).
internetClass(c) == c = ClassIN \/ c = ANYCLASS

parse(pres, t, c, rdata) ==
    CASE t = CNAME -> parseCNAME(pres, rdata)
      [] t = MX -> parseMX(pres, rdata)
      [] t = SRV -> parseSRV(pres, rdata)
      [] t = NS -> parseNS(pres, rdata)
      [] t = TXT -> parseTXT(pres, rdata)
      [] t = SOA -> parseSOA(pres, rdata)
      [] t = PTR -> parsePTR(pres, rdata)
      [] OTHER ->
            IF internetClass(c) /\ t = A THEN parseA(pres, rdata)
            ELSE IF internetClass(c) /\ t = AAAA THEN parseAAAA(pres, rdata)
            ELSE Ok(NoRecord)

-----------------------------------------------------------------------------
(* parseResponse *)

\* return answers, err
Return(answers, err) == [st |-> "returned", answers |-> answers, err |-> err]

\* A variant of appendAnswer that puts the new answer in front.
appendAnswer_InFront(answers, a) == <<a>> \o answers

\* answers = append(answers, answer{...}) (lines 249-255).
appendAnswer(answers, a) == Append(answers, a)

\* A variant of endOfBuffer that returns the answers decoded so far.
endOfBuffer_KeepsAnswers(answers) == Return(answers, "ErrCorrupted")

\* return nil, ErrCorrupted when the buffer ends before record i (lines 201-203)
endOfBuffer(answers) == Return(<<>>, "ErrCorrupted")

\* The loop over the answer records (lines 200-256): buf is at the first byte
\* of record i.
RECURSIVE answerLoop(_, _, _, _, _)
answerLoop(pres, buf, i, ancount, answers) ==
    IF ~(i < ancount) THEN Return(answers, "nil")
    ELSE IF len(buf) = 0 THEN endOfBuffer(answers)
    ELSE LET n == parseName(pres, buf) IN
         IF n.st # "ok" THEN n
         ELSE LET offset == n.offset IN
              IF ~InSlice(buf, offset, offset + 10) THEN Panic
              ELSE LET t == Uint16(buf, offset)
                       class == Uint16(buf, offset + 2)
                       ttl == Uint32(buf, offset + 4)
                       rdlength == Uint16(buf, offset + 8)
                   IN IF ~InSlice(buf, offset + 10, offset + 10 + rdlength) THEN Panic
                      ELSE IF ~InSliceFrom(buf, offset + 10 + rdlength) THEN Panic
                      ELSE LET rdata == Sub(buf, offset + 10, offset + 10 + rdlength)
                               parsed == parse(pres, t, class, rdata)
                           IN IF parsed.st # "ok" THEN parsed
                              ELSE answerLoop(pres, From(buf, offset + 10 + rdlength),
                                              i + 1, ancount,
                                              appendAnswer(answers,
                                                     [name |-> n.name, t |-> t,
                                                      class |-> class, ttl |-> ttl,
                                                      parsed |-> parsed.v]))

\* The loop over the questions (lines 174-196), then the answers.
RECURSIVE questionLoop(_, _, _, _, _)
questionLoop(pres, buf, i, qdcount, ancount) ==
    IF ~(i < qdcount) THEN answerLoop(pres, buf, 0, ancount, <<>>)
    ELSE IF len(buf) = 0 THEN Return(<<>>, "ErrCorrupted")
    ELSE LET n == parseName(pres, buf) IN
         IF n.st # "ok" THEN n
         ELSE IF ~InSliceFrom(buf, n.offset + 4) THEN Panic
         ELSE questionLoop(pres, From(buf, n.offset + 4), i + 1, qdcount, ancount)

\* A variant of opcode that masks three bits instead of four.
opcode_ThreeBits(r) == (At(r, 2) \div 8) % 8

\* A variant of tc that shifts by two, and so reads the AA bit.
tc_ReadsAA(r) == (At(r, 2) \div 4) % 2

\* The header fields parseResponse checks (lines 143, 150, 157, 163).
qr(r) == At(r, 2) \div 128
opcode(r) == (At(r, 2) \div 8) % 16
tc(r) == (At(r, 2) \div 2) % 2
rcode(r) == At(r, 3) % 16

\* dnsErrors[code]: an index outside the table panics.
dnsError(code) == IF code < Len(dnsErrors) THEN Return(<<>>, dnsErrors[code + 1]) ELSE Panic

\* A variant of parseResponse that checks OPCODE before QR.
parseResponse_OpcodeFirst(r) ==
    IF len(r) < DNSMsgHeaderLen THEN Return(<<>>, "ErrCorrupted")
    ELSE IF opcode(r) # 0 THEN Return(<<>>, "ErrNotStandardQuery")
    ELSE IF qr(r) # 1 THEN Return(<<>>, "ErrNotAResponse")
    ELSE IF tc(r) # 0 THEN Return(<<>>, "ErrTruncated")
    ELSE IF rcode(r) # 0 THEN dnsError(rcode(r))
    ELSE questionLoop(r, From(r, DNSMsgHeaderLen), 0, Uint16(r, 4), Uint16(r, 6))

\* A variant of parseResponse that rejects only the empty buffer, as the two
\* loops do, and so indexes res[2] and res[3] of a buffer that may lack them.
parseResponse_EmptyOnly(r) ==
    IF len(r) = 0 THEN Return(<<>>, "ErrCorrupted")
    ELSE IF ~InIndex(r, 2) THEN Panic
    ELSE IF qr(r) # 1 THEN Return(<<>>, "ErrNotAResponse")
    ELSE IF opcode(r) # 0 THEN Return(<<>>, "ErrNotStandardQuery")
    ELSE IF tc(r) # 0 THEN Return(<<>>, "ErrTruncated")
    ELSE IF ~InIndex(r, 3) THEN Panic
    ELSE IF rcode(r) # 0 THEN dnsError(rcode(r))
    ELSE IF ~InSlice(r, 6, 8) \/ ~InSliceFrom(r, DNSMsgHeaderLen) THEN Panic
    ELSE questionLoop(r, From(r, DNSMsgHeaderLen), 0, Uint16(r, 4), Uint16(r, 6))

\* A variant of parseResponse that walks the additional section as well.
parseResponse_WalksAdditional(r) ==
    IF len(r) < DNSMsgHeaderLen THEN Return(<<>>, "ErrCorrupted")
    ELSE IF qr(r) # 1 THEN Return(<<>>, "ErrNotAResponse")
    ELSE IF opcode(r) # 0 THEN Return(<<>>, "ErrNotStandardQuery")
    ELSE IF tc(r) # 0 THEN Return(<<>>, "ErrTruncated")
    ELSE IF rcode(r) # 0 THEN dnsError(rcode(r))
    ELSE questionLoop(r, From(r, DNSMsgHeaderLen), 0, Uint16(r, 4),
                      Uint16(r, 6) + Uint16(r, 10))

parseResponse(r) ==
    IF len(r) < DNSMsgHeaderLen THEN Return(<<>>, "ErrCorrupted")
    ELSE IF qr(r) # 1 THEN Return(<<>>, "ErrNotAResponse")
    ELSE IF opcode(r) # 0 THEN Return(<<>>, "ErrNotStandardQuery")
    ELSE IF tc(r) # 0 THEN Return(<<>>, "ErrTruncated")
    ELSE IF rcode(r) # 0 THEN dnsError(rcode(r))
    ELSE LET qdcount == Uint16(r, 4)
             ancount == Uint16(r, 6)
         IN questionLoop(r, From(r, DNSMsgHeaderLen), 0, qdcount, ancount)

\* parseResponse up to the two counts (lines 115-169): the verdict on the
\* header, or the counts the loops go on with.
checkHeader(r) ==
    IF len(r) < DNSMsgHeaderLen THEN Return(<<>>, "ErrCorrupted")
    ELSE IF qr(r) # 1 THEN Return(<<>>, "ErrNotAResponse")
    ELSE IF opcode(r) # 0 THEN Return(<<>>, "ErrNotStandardQuery")
    ELSE IF tc(r) # 0 THEN Return(<<>>, "ErrTruncated")
    ELSE IF rcode(r) # 0 THEN dnsError(rcode(r))
    ELSE [st |-> "continue", qdcount |-> Uint16(r, 4), ancount |-> Uint16(r, 6)]

-----------------------------------------------------------------------------
(* The wire format of the messages the decoder is run on (RFC 1035, as the  *)
(* layout comments of parseResponse draw it).                                *)

BE16(v) == <<v \div 256, v % 256>>
BE32(v) == BE16(v[1]) \o BE16(v[2])

RECURSIVE Flatten(_)
Flatten(ss) == IF Len(ss) = 0 THEN <<>> ELSE ss[1] \o Flatten(Tail(ss))

Take(bs, k) == SubSeq(bs, 1, k)

\* header: ID, the two flag bytes, QDCOUNT, ANCOUNT, NSCOUNT, ARCOUNT
WireHeader(h) ==
    BE16(h.id) \o <<h.flags2, h.flags3>> \o BE16(h.qd) \o BE16(h.an)
        \o BE16(h.ns) \o BE16(h.ar)

\* question: QNAME, QTYPE, QCLASS
WireQuestion(q) == q.wire \o BE16(q.t) \o BE16(q.c)

\* answer record: NAME, TYPE, CLASS, TTL, RDLENGTH, RDATA
WireRecord(r) ==
    r.wire \o BE16(r.t) \o BE16(r.c) \o BE32(r.ttl) \o BE16(Len(r.rdata)) \o r.rdata

WireQuestions(m) == Flatten([i \in 1..Len(m.qs) |-> WireQuestion(m.qs[i])])
WireRecords(m) == Flatten([i \in 1..Len(m.rs) |-> WireRecord(m.rs[i])])

\* The whole message as the server wrote it, and the prefix of it that arrived.
WireMessage(m) == WireHeader(m.hdr) \o WireQuestions(m) \o WireRecords(m) \o m.tail
Delivered(m) == Take(WireMessage(m), m.cut)

\* Where the answer section of m ends.
EndOfAnswers(m) == DNSMsgHeaderLen + Len(WireQuestions(m)) + Len(WireRecords(m))

-----------------------------------------------------------------------------
(* encodeQuery *)

\* strings.Split(fqdn, "."): the pieces between the dots, empty ones kept.
\* n dots make n + 1 pieces; piece k lies between dot k - 1 and dot k.
Split(str) ==
    LET dots == {i \in 1..Len(str) : str[i] = Dot}
        n == Cardinality(dots)
        dot(k) == IF k = 0 THEN 0
                  ELSE IF k = n + 1 THEN Len(str) + 1
                  ELSE CHOOSE i \in dots : Cardinality({j \in dots : j < i}) = k - 1
    IN [k \in 1..(n + 1) |-> SubSeq(str, dot(k - 1) + 1, dot(k) - 1)]

\* The generator seeded with the time.  Its first Int31() is a fixed function
\* of the seed; the function used here is the generator's seeding step
\* x -> 48271 * x mod (2^31 - 1).
seedrand(x) ==
    LET hi == x \div 44488
        lo == x % 44488
        y == 48271 * lo - 3399 * hi
    IN IF y < 0 THEN y + 2147483647 ELSE y

\* uint16(r.Int31()), r seeded with now (lines 15-17)
reqID(now) == seedrand(now % 2147483647) % 65536

\* The header of a query (lines 38-61): ID, RD = 1, CD = 1, QDCOUNT = 1.
queryHeader(id) == BE16(id) \o <<1, 16, 0, 1, 0, 0, 0, 0, 0, 0>>

\* A label written without its length byte.
writeLabel_NoLength(l) == l

\* q.Write([]byte{byte(len(l))}); q.Write([]byte(l)) (lines 84-85)
writeLabel(l) == <<Len(l) % 256>> \o l

\* The name without its terminating zero byte.
writeName_NoTerminator(labels) ==
    Flatten([i \in 1..Len(labels) |-> writeLabel(labels[i])])

\* The loop over the labels and the zero byte after it (lines 83-87).
writeName(labels) ==
    Flatten([i \in 1..Len(labels) |-> writeLabel(labels[i])]) \o <<0>>

\* encodeQuery(fqdn, t, c) at the second now.  It has no error result.
encodeQuery(fqdn, t, c, now) ==
    queryHeader(reqID(now)) \o writeName(Split(fqdn)) \o BE16(t) \o BE16(c)

-----------------------------------------------------------------------------
(* Resolver: the Lookup<T> methods *)

\* return recs, ttls, err
Looked(recs, ttls, err) == [st |-> "returned", recs |-> recs, ttls |-> ttls, err |-> err]

\* A class check that lets every class pass.
notIN_Never(class) == FALSE

\* r.Class != IN && r.Class != ANYCLASS (lines 49 and 78)
notIN(class) == class # ClassIN /\ class # ANYCLASS

\* Only LookupACtx and LookupAAAACtx check the class.
checksClass(t) == t = A \/ t = AAAA

\* The Go type that Lookup<T> asserts the payload of an answer to have.
recordKind(t) ==
    CASE t = A -> "ARecord"
      [] t = AAAA -> "AAAARecord"
      [] t = CNAME -> "CNAMERecord"
      [] t = MX -> "MXRecord"
      [] t = NS -> "NSRecord"
      [] t = TXT -> "TXTRecord"
      [] t = SRV -> "SRVRecord"
      [] t = SOA -> "SOARecord"
      [] t = PTR -> "PTRRecord"

\* A variant of appendRec that puts the new element in front.
appendRec_InFront(xs, x) == <<x>> \o xs

\* recs = append(recs, ...); ttls = append(ttls, a.ttl)
appendRec(xs, x) == Append(xs, x)

\* The loop over the answers (e.g. lines 62-67): an answer of type t is kept,
\* its payload asserted to be of the Go type of t; the assertion panics on a
\* payload of another type and on no payload.
RECURSIVE filterLoop(_, _, _, _, _)
filterLoop(answers, i, t, recs, ttls) ==
    IF i > Len(answers) THEN Looked(recs, ttls, "nil")
    ELSE LET a == answers[i] IN
         IF a.t = t
         THEN IF a.parsed.kind # recordKind(t) THEN Panic
              ELSE filterLoop(answers, i + 1, t, appendRec(recs, a.parsed),
                              appendRec(ttls, a.ttl))
         ELSE filterLoop(answers, i + 1, t, recs, ttls)

\* What Lookup<T> does with what lookup returns (e.g. lines 58-69).
filter(r, t) ==
    IF r.st # "returned" THEN r
    ELSE IF r.err # "nil" THEN Looked(<<>>, <<>>, r.err)
    ELSE filterLoop(r.answers, 1, t, <<>>, <<>>)

\* "_" + service + "._" + network + "." + domain (lines 278 and 289)
serviceName(service, network, domain) ==
    <<95>> \o service \o <<Dot, 95>> \o network \o <<Dot>> \o domain

-----------------------------------------------------------------------------
(* Bounds of the model *)

MaxQuestions == 1   \* questions in a generated message
MaxAnswers == 2     \* answer records in a generated message
MaxSpare == 1       \* bytes of capacity behind the length of a buffer
MaxTicks == 1       \* seconds that pass between two calls
NumProcs == 2       \* calls that run at the same time

-----------------------------------------------------------------------------
(* The inputs.  Names are given with their wire bytes and the name they      *)
(* stand for ("a.bz" is 97 46 98 122); 192 12 is a pointer to offset 12,     *)
(* where the first question's name is.                                       *)

NameABZ == <<97, 46, 98, 122>>
NameCABZ == <<99, 46, 97, 46, 98, 122>>

Q1 == [wire |-> <<1, 97, 2, 98, 122, 0>>, name |-> NameABZ, t |-> A, c |-> ClassIN]

\* CNAME record, owner a compression pointer, target a label plus a pointer
R1 == [wire |-> <<192, 12>>, name |-> NameABZ, t |-> CNAME, c |-> ClassIN,
       ttl |-> <<0, 3600>>, rdata |-> <<1, 99, 192, 12>>, ptr |-> TRUE, wf |-> TRUE]
\* A record, class IN, the largest TTL
R2 == [wire |-> <<1, 99, 192, 12>>, name |-> NameCABZ, t |-> A, c |-> ClassIN,
       ttl |-> <<65535, 65535>>, rdata |-> <<51, 38, 47, 191>>, ptr |-> TRUE, wf |-> TRUE]
\* A record of class CH: no parser
R3 == [wire |-> <<1, 100, 0>>, name |-> <<100>>, t |-> A, c |-> CH,
       ttl |-> <<0, 0>>, rdata |-> <<1, 2, 3>>, ptr |-> FALSE, wf |-> TRUE]
\* a type the decoder does not know, empty RDATA
R4 == [wire |-> <<1, 100, 1, 101, 0>>, name |-> <<100, 46, 101>>, t |-> 99, c |-> ClassIN,
       ttl |-> <<32768, 0>>, rdata |-> <<>>, ptr |-> FALSE, wf |-> TRUE]
\* TXT record owned by the root name
R5 == [wire |-> <<0>>, name |-> <<>>, t |-> TXT, c |-> HS,
       ttl |-> <<0, 7>>, rdata |-> <<2, 104, 105>>, ptr |-> FALSE, wf |-> TRUE]
\* MX record whose RDATA stops after one byte
R6 == [wire |-> <<1, 100, 0>>, name |-> <<100>>, t |-> MX, c |-> ClassIN,
       ttl |-> <<1, 300>>, rdata |-> <<0>>, ptr |-> FALSE, wf |-> FALSE]

RecordPool == {R1, R2, R3, R4, R5, R6}

SeqsUpTo(S, n) == UNION {[1..k -> S] : k \in 0..n}

\* Records whose names point at offset 12 need a question there.
RecordsFor(qs) == IF Len(qs) = 0 THEN {r \in RecordPool : ~r.ptr} ELSE RecordPool

GoodFlags2 == 129   \* QR=1, OPCODE=0, TC=0, RD=1
GoodFlags3 == 144   \* CD=1, RCODE=0

Header(id, f2, f3, qd, an, ar) ==
    [id |-> id, flags2 |-> f2, flags3 |-> f3, qd |-> qd, an |-> an, ns |-> 0, ar |-> ar]

\* Messages with a header that passes every check, cut at every length.
GoodMessages ==
    UNION { { [hdr |-> Header(48163, GoodFlags2, GoodFlags3, Len(qs), Len(rs), 0),
               qs |-> qs, rs |-> rs, tail |-> <<>>, cut |-> 0] :
                 rs \in SeqsUpTo(RecordsFor(qs), MaxAnswers) } :
            qs \in SeqsUpTo({Q1}, MaxQuestions) }

Flags2Pool == {129, 133, 1, 137, 131, 139, 11, 121, 195, 249}
Flags3Pool == {128 + r : r \in 0..15} \cup {3, 22}

\* Bodies put behind the headers that vary the flags: none, a question and two
\* records, and bytes that are no question at all.
VariedBodies ==
    { [qd |-> 0, an |-> 0, qs |-> <<>>, rs |-> <<>>, tail |-> <<>>],
      [qd |-> 1, an |-> 2, qs |-> <<Q1>>, rs |-> <<R1, R2>>, tail |-> <<>>],
      [qd |-> 1, an |-> 1, qs |-> <<>>, rs |-> <<>>, tail |-> <<63, 255, 192>>] }

VariedMessages ==
    { [hdr |-> Header(0, f2, f3, b.qd, b.an, 1),
       qs |-> b.qs, rs |-> b.rs, tail |-> b.tail, cut |-> 0] :
         f2 \in Flags2Pool, f3 \in Flags3Pool, b \in VariedBodies }

\* The capacity behind the length holds bytes of an earlier use of the array.
Spares == UNION {[1..k -> {0, 192}] : k \in 0..MaxSpare}

NoCall == [t |-> 0, c |-> 0, rdata |-> NilSlice, fits |-> {}]
NoOutcome == [st |-> "none"]

\* Messages whose question name is a pointer cycle: at 12 a pointer to 12; at
\* 12 a pointer to 14, where a label is followed by a pointer back to 12.
CyclicMessages ==
    { [hdr |-> Header(48163, GoodFlags2, GoodFlags3, 1, 0, 0),
       qs |-> <<>>, rs |-> <<>>, tail |-> tl, cut |-> 0] :
         tl \in { <<192, 12, 0, 1, 0, 1>>, <<192, 14, 1, 97, 192, 12, 0, 1, 0, 1>> } }

\* The second in which the first call is made.
Now0 == 1572566400

\* No query has been encoded, no step taken.
Idle == clock = Now0 /\ query = <<>> /\ trace = <<>>

\* What follows the last answer record: nothing, the OPT record of the test
\* response, half a pointer, a label that runs past the end.
Trailers == { << >>, <<0, 0, 41, 5, 172, 0, 0, 0, 0, 0, 0>>, <<192>>, <<63, 255>> }

\* Messages that pass every check, with any counts of authority and
\* additional records in the header and anything behind the answers.
TrailedMessages ==
    { [m EXCEPT !.hdr.ns = ns, !.hdr.ar = ar, !.tail = tl] :
        m \in GoodMessages, ns \in {0, 65535}, ar \in {0, 1}, tl \in Trailers }

\* An A record whose owner is a pointer to offset 0, the ID of the header;
\* name is what parseName reads there when the second flag byte is 0: the
\* root name for an ID of 0, and for the ID 2 * 256 + 97 the label made of
\* byte 1 and the first flag byte.
HeaderPointerRecord(id) ==
    [wire |-> <<192, 0>>, name |-> IF id = 0 THEN << >> ELSE <<97, GoodFlags2>>,
     t |-> A, c |-> ClassIN, ttl |-> <<0, 60>>, rdata |-> <<51, 38, 47, 191>>,
     ptr |-> TRUE, wf |-> FALSE]

\* Messages with such a record, the second flag byte 0 (RCODE = 0).
HeaderPointerMessages ==
    { [hdr |-> Header(id, GoodFlags2, 0, 1, 1, 0),
       qs |-> <<Q1>>, rs |-> << HeaderPointerRecord(id) >>, tail |-> << >>, cut |-> 0] :
         id \in {0, 2 * 256 + 97} }

\* A message is handed to the decoder: any generated message, cut anywhere,
\* or a whole message with authority and additional sections.
InitDecode ==
    /\ \/ \E m \in GoodMessages \cup VariedMessages \cup CyclicMessages :
            \E k \in 0..Len(WireMessage(m)) :
               /\ sent = [m EXCEPT !.cut = k]
               /\ \E sp \in Spares : res = MakeSlice(Take(WireMessage(m), k), sp)
       \/ \E m \in TrailedMessages \cup HeaderPointerMessages :
            /\ sent = [m EXCEPT !.cut = Len(WireMessage(m))]
            /\ \E sp \in Spares : res = MakeSlice(WireMessage(m), sp)
    /\ call = NoCall
    /\ pc = "ready"
    /\ out = NoOutcome
    /\ Idle

\* SOA RDATA by its parts: the primary name server as the label "c" alone or
\* before a pointer to "a.bz"; the mailbox as the root name, a pointer to "bz"
\* or a label before a pointer to the root name; the five integers of the
\* parser's test, or five with the top bit set in all but one.
SOACases ==
    { [mname |-> m, rname |-> r, ints |-> v] :
        m \in { <<1, 99, 0>>, <<1, 99, 192, 12>> },
        r \in { <<0>>, <<192, 14>>, <<1, 100, 192, 17>> },
        v \in { << <<30807, 53152>>, <<1, 20864>>, <<0, 3600>>, <<54, 61056>>, <<0, 300>> >>,
                << <<65535, 65535>>, <<32768, 0>>, <<65535, 65535>>, <<32767, 65535>>,
                   <<32768, 1>> >> } }

SOAWire(d) == d.mname \o d.rname \o Flatten([i \in 1..5 |-> BE32(d.ints[i])])

\* RDATA for direct calls of parse, each with the types it has the shape of.
\* needs: the RDATA holds a pointer, and so needs p.res to be the message.
RdataPool ==
    { [bytes |-> <<51, 38, 47, 191>>, fits |-> {A}, needs |-> FALSE],
      [bytes |-> <<32, 1, 65, 208, 3, 2, 17, 0, 0, 0, 0, 0, 0, 10, 216, 241>>,
       fits |-> {A, AAAA}, needs |-> FALSE],
      [bytes |-> <<1, 99, 1, 100, 0>>, fits |-> {A, CNAME, NS, PTR}, needs |-> FALSE],
      [bytes |-> <<1, 99, 192, 12>>, fits |-> {A, AAAA, CNAME, NS, PTR}, needs |-> TRUE],
      [bytes |-> <<0, 1, 2, 109, 120, 0>>, fits |-> {A, AAAA, MX, TXT}, needs |-> FALSE],
      [bytes |-> <<0, 10, 0, 0, 33, 0, 1, 99, 192, 12>>, fits |-> {A, AAAA, SRV, TXT},
       needs |-> TRUE],
      [bytes |-> <<2, 104, 105>>, fits |-> {A, TXT}, needs |-> FALSE],
      [bytes |-> <<1, 99, 0, 192, 12>> \o BE32(<<30807, 53152>>) \o BE32(<<65535, 65535>>)
                    \o BE32(<<0, 3600>>) \o BE32(<<32768, 0>>) \o BE32(<<0, 300>>),
       fits |-> {A, SOA}, needs |-> TRUE],
      [bytes |-> <<1, 99, 0, 192, 12>> \o BE32(<<30807, 53152>>) \o BE32(<<0, 86400>>)
                    \o BE32(<<0, 3600>>) \o BE32(<<54, 61056>>) \o <<0, 0, 1>>,
       fits |-> {A}, needs |-> TRUE],
      [bytes |-> <<>>, fits |-> {A, AAAA}, needs |-> FALSE] }
        \cup { [bytes |-> SOAWire(d), fits |-> {A, SOA}, needs |-> TRUE] : d \in SOACases }

TypePool == {A, NS, CNAME, SOA, PTR, MX, TXT, AAAA, SRV, 0, 41, 255, 65535}
ClassPool == {ClassIN, CS, CH, HS, ANYCLASS, 0, 254, 65535}

\* The message p.res holds in a direct call of parse: a header and a question.
CallMessage ==
    [hdr |-> Header(48163, GoodFlags2, GoodFlags3, 1, 0, 0),
     qs |-> <<Q1>>, rs |-> <<>>, tail |-> <<>>, cut |-> DNSMsgHeaderLen + Len(WireQuestion(Q1))]

\* parse is called on its own, on a parser that holds the message or nothing
\* (the zero parser of the tests), with RDATA in a slice of its own.
InitParse ==
    /\ sent = CallMessage
    /\ res \in {NilSlice, MakeSlice(Delivered(CallMessage), <<>>)}
    /\ \E t \in TypePool, c \in ClassPool, d \in RdataPool, sp \in Spares :
          call = [t |-> t, c |-> c, rdata |-> MakeSlice(d.bytes, sp),
                  fits |-> IF d.needs /\ len(res) = 0 THEN {} ELSE d.fits]
    /\ pc = "call"
    /\ out = NoOutcome
    /\ Idle

\* The message p.res holds in a direct call of parseName: a header, the
\* question Q1 (its name "a.bz" at offset 12, "bz" at 14, the root name at 17)
\* and the record R1 (a pointer at 22, and at 34 the RDATA <<1, 99, 192, 12>>).
NameMessage ==
    [hdr |-> Header(48163, GoodFlags2, GoodFlags3, 1, 1, 0),
     qs |-> <<Q1>>, rs |-> <<R1>>, tail |-> <<>>,
     cut |-> DNSMsgHeaderLen + Len(WireQuestion(Q1)) + Len(WireRecord(R1))]

\* The labels of the name that starts at an offset of NameMessage.
TargetLabels(ptr) ==
    CASE ptr = 12 -> << <<97>>, <<98, 122>> >>
      [] ptr = 14 -> << <<98, 122>> >>
      [] ptr = 17 -> << >>
      [] ptr = 22 -> << <<97>>, <<98, 122>> >>
      [] ptr = 34 -> << <<99>>, <<97>>, <<98, 122>> >>

Targets == {12, 14, 17, 22, 34}

\* "abolivier" and "bzh", the labels of the test name, and a label of 63 bytes
LabelAbolivier == <<97, 98, 111, 108, 105, 118, 105, 101, 114>>
LabelBzh == <<98, 122, 104>>
MaxLabelLen == 63
LongestLabel == [i \in 1..MaxLabelLen |-> 120]

LabelSeqs ==
    { << >>, << <<99>> >>, << <<97>>, <<98, 122>> >>, << LabelAbolivier, LabelBzh >>,
      << LongestLabel >>, << <<100>>, LongestLabel, <<101>> >> }

\* Each label as a length byte and its bytes.
WireLabels(ls) == Flatten([i \in 1..Len(ls) |-> <<Len(ls[i])>> \o ls[i]])

\* A name on the wire: its labels, then the zero byte or a pointer to ptr.
WireName(ls, ptr) ==
    WireLabels(ls) \o (IF ptr < 0 THEN <<0>> ELSE <<192 + (ptr \div 256), ptr % 256>>)

\* Bytes that do not hold a whole name: a label longer than the buffer, no
\* terminator, half a pointer, a pointer to or behind the end of the message,
\* nothing at all.
ShortNames == { <<5, 97>>, <<1, 97>>, <<192>>, <<1, 97, 192>>, <<192, 200>>, <<192, 38>>, << >> }

AfterName == { << >>, <<7, 192>> }

\* parseName is called on its own: on a buffer of its own that starts with a
\* name, with p.res the message or nothing (the zero parser of the tests);
\* on a slice of the message; on a buffer that holds no whole name; on a
\* pointer into a message with a pointer cycle.
InitName ==
    /\ pc = "name"
    /\ out = NoOutcome
    /\ Idle
    /\ \/ /\ sent = NameMessage
          /\ res \in {NilSlice, MakeSlice(Delivered(NameMessage), <<>>)}
          /\ \E ls \in LabelSeqs, rest \in AfterName, sp \in Spares :
                \/ call = [b |-> MakeSlice(WireName(ls, -1) \o rest, sp), labels |-> ls,
                           ptr |-> -1, kind |-> "plain"]
                \/ /\ len(res) > 0
                   /\ \E ptr \in Targets :
                         call = [b |-> MakeSlice(WireName(ls, ptr) \o rest, sp),
                                 labels |-> ls, ptr |-> ptr, kind |-> "pointer"]
       \/ /\ sent = NameMessage
          /\ res = MakeSlice(Delivered(NameMessage), <<>>)
          /\ \/ call = [b |-> Sub(res, 34, 38), labels |-> << <<99>> >>, ptr |-> 12,
                         kind |-> "pointer"]
             \/ call = [b |-> Sub(res, 22, 24), labels |-> << >>, ptr |-> 12,
                         kind |-> "pointer"]
             \/ call = [b |-> From(res, 12), labels |-> << <<97>>, <<98, 122>> >>,
                         ptr |-> -1, kind |-> "plain"]
       \/ /\ sent = NameMessage
          /\ res = MakeSlice(Delivered(NameMessage), <<>>)
          /\ \E bs \in ShortNames, sp \in Spares :
                call = [b |-> MakeSlice(bs, sp), labels |-> << >>, ptr |-> -1,
                        kind |-> "short"]
       \/ /\ \E m \in CyclicMessages :
                /\ sent = [m EXCEPT !.cut = Len(WireMessage(m))]
                /\ res = MakeSlice(WireMessage(m), <<>>)
          /\ \E ls \in {<< >>, << <<99>> >>}, sp \in Spares :
                call = [b |-> MakeSlice(WireName(ls, 12), sp), labels |-> ls,
                        ptr |-> 12, kind |-> "cycle"]

\* A label of n bytes.
FillLabel(n) == [i \in 1..n |-> 120]

LabelBrendan == <<98, 114, 101, 110, 100, 97, 110>>

\* The names given to encodeQuery, as their pieces between the dots: names of
\* labels of 1..63 bytes; names with a label of 64, 192 and 256 bytes; the
\* empty name, a name with a dot at its end, a name with two dots in a row.
EncodeLabelSeqs ==
    { << <<99>> >>, << <<97>>, <<98, 122>> >>, << LabelAbolivier, LabelBzh >>,
      << LabelBrendan, LabelAbolivier, LabelBzh >>,
      << LongestLabel >>, << <<100>>, LongestLabel, <<101>> >>,
      << FillLabel(64) >>, << FillLabel(192) >>, << FillLabel(256) >>,
      << <<97>>, FillLabel(64) >>,
      << << >> >>, << <<97>>, << >> >>, << <<97>>, << >>, <<98>> >> }

\* encodeQuery is called on its own.
InitEncode ==
    /\ pc = "encode"
    /\ out = NoOutcome
    /\ Idle
    /\ res = NilSlice
    /\ sent = NameMessage
    /\ \E ls \in EncodeLabelSeqs, t \in TypePool, c \in ClassPool :
          call = [fqdn |-> Join(ls, Dot), labels |-> ls, t |-> t, c |-> c]

\* A second A record of class IN: other owner, TTL and address.
R7 == [wire |-> <<1, 100, 0>>, name |-> <<100>>, t |-> A, c |-> ClassIN,
       ttl |-> <<1, 44>>, rdata |-> <<10, 0, 0, 1>>, ptr |-> FALSE, wf |-> TRUE]

\* The bodies a server answers a lookup with: the question and up to
\* MaxAnswers records of any type and class, all of it or all but the last
\* byte; a name error; a question whose name is a pointer cycle.
LookupResponses ==
    LET answered == { [hdr |-> Header(48163, GoodFlags2, GoodFlags3, 1, Len(rs), 0),
                       qs |-> <<Q1>>, rs |-> rs, tail |-> <<>>, cut |-> 0] :
                         rs \in SeqsUpTo(RecordPool \cup {R7}, MaxAnswers) }
        refused == { [hdr |-> Header(48163, GoodFlags2, 131, 1, 0, 0),
                      qs |-> <<Q1>>, rs |-> <<>>, tail |-> <<>>, cut |-> 0] }
        whole == { [m EXCEPT !.cut = Len(WireMessage(m))] :
                     m \in answered \cup refused \cup CyclicMessages }
        short == { [m EXCEPT !.cut = Len(WireMessage(m)) - 1] :
                     m \in {n \in answered : Len(n.rs) = 1} }
    IN whole \cup short

\* The types that have a Lookup<T> method.
LookupTypes == {A, AAAA, CNAME, MX, NS, TXT, SRV, SOA, PTR}

\* The classes a Resolver is configured with.
ResolverClasses == {ClassIN, CH, ANYCLASS}

\* A Lookup<T> method is called on a Resolver of some class; LookupService
\* is LookupSRV of the name it builds.
InitLookup ==
    /\ pc = "lookup"
    /\ out = NoOutcome
    /\ Idle
    /\ res = NilSlice
    /\ sent = NameMessage
    /\ \E t \in LookupTypes, class \in ResolverClasses :
          \/ call = [fqdn |-> NameABZ, t |-> t, class |-> class]
          \/ /\ t = SRV
             /\ call = [fqdn |-> serviceName(<<115>>, <<116>>, NameABZ), t |-> t,
                        class |-> class]

Init == InitDecode \/ InitParse \/ InitName \/ InitEncode \/ InitLookup

\* The transport hands the buffer to parseResponse, which runs to its end.
Decode ==
    /\ pc = "ready"
    /\ out' = parseResponse(res)
    /\ pc' = "done"
    /\ UNCHANGED <<res, sent, call, clock, query, trace>>

\* p.parse(t, c, rdata) runs to its end.
Parse ==
    /\ pc = "call"
    /\ out' = parse(res, call.t, call.c, call.rdata)
    /\ pc' = "parsed"
    /\ UNCHANGED <<res, sent, call, clock, query, trace>>

\* p.parseName(b) runs to its end.
Name ==
    /\ pc = "name"
    /\ out' = parseName(res, call.b)
    /\ pc' = "named"
    /\ UNCHANGED <<res, sent, call, clock, query, trace>>

\* An encoder whose generator is kept from one call to the next.
Encoded_Stateful(fqdn, t, c, now) ==
    [st |-> "returned", q |-> encodeQuery(fqdn, t, c, now + Len(trace)), err |-> "nil"]

\* q := encodeQuery(fqdn, t, c); the err that lookup reads is always nil.
Encoded(fqdn, t, c, now) ==
    [st |-> "returned", q |-> encodeQuery(fqdn, t, c, now), err |-> "nil"]

\* encodeQuery(fqdn, t, c) runs to its end.
Encode ==
    /\ pc = "encode"
    /\ out' = Encoded(call.fqdn, call.t, call.c, clock)
    /\ query' = out'.q
    /\ trace' = Append(trace, "encode")
    /\ pc' = "encoded"
    /\ UNCHANGED <<res, sent, call, clock>>

\* A second passes between two calls.
Tick ==
    /\ pc = "encoded"
    /\ clock < Now0 + MaxTicks
    /\ clock' = clock + 1
    /\ UNCHANGED <<res, sent, call, pc, out, query, trace>>

\* encodeQuery runs again with the same arguments.
EncodeAgain ==
    /\ pc = "encoded"
    /\ out' = Encoded(call.fqdn, call.t, call.c, clock)
    /\ trace' = Append(trace, "encode")
    /\ pc' = "encoded2"
    /\ UNCHANGED <<res, sent, call, clock, query>>

\* Lookup<T> up to the exchange: LookupA and LookupAAAA check the class and
\* return ErrNotIN; lookup encodes the query, always of class IN, and returns
\* the encoder's error if there is one.
LookupStart ==
    /\ pc = "lookup"
    /\ IF checksClass(call.t) /\ notIN(call.class)
       THEN /\ out' = Looked(<<>>, <<>>, "ErrNotIN")
            /\ pc' = "lookedup"
            /\ UNCHANGED <<query, trace>>
       ELSE LET e == Encoded(call.fqdn, call.t, ClassIN, clock) IN
            /\ query' = e.q
            /\ trace' = Append(trace, "encode")
            /\ IF e.err # "nil"
               THEN out' = Looked(<<>>, <<>>, e.err) /\ pc' = "lookedup"
               ELSE out' = out /\ pc' = "exchange"
    /\ UNCHANGED <<res, sent, call, clock>>

\* A lookup that makes the exchange again when it failed.
ExchangeFails_Retries ==
    /\ pc = "exchange"
    /\ Len(trace) < 3
    /\ trace' = Append(trace, "exchange")
    /\ UNCHANGED <<res, sent, call, pc, out, clock, query>>

\* exchangeHTTPS fails: the request fails or the status is not 200.
ExchangeFails ==
    /\ pc = "exchange"
    /\ trace' = Append(trace, "exchange")
    /\ out' = Looked(<<>>, <<>>, "exchange")
    /\ pc' = "lookedup"
    /\ UNCHANGED <<res, sent, call, clock, query>>

\* exchangeHTTPS returns the body the server sent.
ExchangeDelivers ==
    /\ pc = "exchange"
    /\ trace' = Append(trace, "exchange")
    /\ \E m \in LookupResponses, sp \in Spares :
          /\ sent' = m
          /\ res' = MakeSlice(Delivered(m), sp)
    /\ pc' = "decode"
    /\ UNCHANGED <<call, out, clock, query>>

\* lookup returns parseResponse(res), and Lookup<T> filters the answers.
LookupFinish ==
    /\ pc = "decode"
    /\ trace' = Append(trace, "decode")
    /\ out' = filter(parseResponse(res), call.t)
    /\ pc' = "lookedup"
    /\ UNCHANGED <<res, sent, call, clock, query>>

Next ==
    \/ Decode \/ Parse \/ Name \/ Encode \/ Tick \/ EncodeAgain
    \/ LookupStart \/ ExchangeFails \/ ExchangeDelivers \/ LookupFinish

Spec == Init /\ [][Next]_vars

-----------------------------------------------------------------------------
(* Calls of encodeQuery and parseResponse that run at the same time.  Here   *)
(* res holds the buffers of the program, sent what they held at the start,   *)
(* and call, pc, out and query hold one entry for each call: its arguments,  *)
(* its position, its result and its local variables.  A step of a call reads *)
(* the buffers as they are when the step is taken.                           *)

Procs == 1..NumProcs

\* The buffers the calls decode: a whole response with two answers, the same
\* without its last byte, a name error, five bytes, a header of another ID.
ParMessages ==
    LET m == [hdr |-> Header(48163, GoodFlags2, GoodFlags3, 1, 2, 0),
              qs |-> <<Q1>>, rs |-> <<R1, R2>>, tail |-> <<>>, cut |-> 0]
        len0 == Len(WireMessage(m))
        other == [m EXCEPT !.hdr.id = 7, !.rs = <<R2, R7>>]
    IN { [m EXCEPT !.cut = len0], [m EXCEPT !.cut = len0 - 1],
         [m EXCEPT !.hdr.flags3 = 131, !.cut = len0], [m EXCEPT !.cut = 5],
         [other EXCEPT !.cut = Len(WireMessage(other))] }

ParBuffers == { MakeSlice(Delivered(n), <<>>) : n \in ParMessages }

\* What a call is made with: parseResponse(res[b]) or encodeQuery(fqdn, t, c).
ParCalls ==
    { [op |-> "decode", b |-> b, fqdn |-> <<>>, t |-> 0, c |-> 0] : b \in 1..2 }
        \cup { [op |-> "encode", b |-> 0, fqdn |-> NameABZ, t |-> t, c |-> ClassIN] :
                  t \in {A, MX} }

\* The local variables of a call before it sets them.
NoLocals == [id |-> 0, at |-> 0, qdcount |-> 0, ancount |-> 0]

InitPar ==
    /\ res \in [1..2 -> ParBuffers]
    /\ sent = res
    /\ call \in [Procs -> ParCalls]
    /\ pc = [p \in Procs |-> "start"]
    /\ out = [p \in Procs |-> NoOutcome]
    /\ query = [p \in Procs |-> NoLocals]
    /\ clock = Now0
    /\ trace = <<>>

\* parseResponse of call p checks the header and reads the two counts.
ParHeader(p) ==
    /\ pc[p] = "start" /\ call[p].op = "decode"
    /\ LET h == checkHeader(res[call[p].b]) IN
         IF h.st = "continue"
         THEN /\ query' = [query EXCEPT ![p].qdcount = h.qdcount, ![p].ancount = h.ancount]
              /\ pc' = [pc EXCEPT ![p] = "checked"]
              /\ out' = out
         ELSE /\ out' = [out EXCEPT ![p] = h]
              /\ pc' = [pc EXCEPT ![p] = "done"]
              /\ query' = query
    /\ UNCHANGED <<res, sent, call, clock, trace>>

\* parseResponse of call p walks the questions and the answers.
ParBody(p) ==
    /\ pc[p] = "checked"
    /\ LET r == res[call[p].b] IN
         out' = [out EXCEPT ![p] = questionLoop(r, From(r, DNSMsgHeaderLen), 0,
                                                query[p].qdcount, query[p].ancount)]
    /\ pc' = [pc EXCEPT ![p] = "done"]
    /\ UNCHANGED <<res, sent, call, clock, query, trace>>

\* encodeQuery of call p makes its generator and draws its reqID.
ParSeed(p) ==
    /\ pc[p] = "start" /\ call[p].op = "encode"
    /\ query' = [query EXCEPT ![p].id = reqID(clock), ![p].at = clock]
    /\ pc' = [pc EXCEPT ![p] = "seeded"]
    /\ UNCHANGED <<res, sent, call, clock, out, trace>>

\* A reqID that all calls share: the one call 1 holds.
ownID_Shared(locals, p) == locals[1].id

\* reqID is a local of the call (line 15).
ownID(locals, p) == locals[p].id

\* encodeQuery of call p writes the message into its own buffer q.
ParWrite(p) ==
    /\ pc[p] = "seeded"
    /\ out' = [out EXCEPT ![p] =
                 [st |-> "returned",
                  q |-> queryHeader(ownID(query, p)) \o writeName(Split(call[p].fqdn))
                          \o BE16(call[p].t) \o BE16(call[p].c),
                  err |-> "nil"]]
    /\ pc' = [pc EXCEPT ![p] = "done"]
    /\ UNCHANGED <<res, sent, call, clock, query, trace>>

\* A second passes while calls are running.
ParTick ==
    /\ \E p \in Procs : pc[p] # "done"
    /\ clock < Now0 + MaxTicks
    /\ clock' = clock + 1
    /\ UNCHANGED <<res, sent, call, pc, out, query, trace>>

NextPar ==
    \/ \E p \in Procs : ParHeader(p)
    \/ \E p \in Procs : ParBody(p)
    \/ \E p \in Procs : ParSeed(p)
    \/ \E p \in Procs : ParWrite(p)
    \/ ParTick

SpecPar == InitPar /\ [][NextPar]_vars

-----------------------------------------------------------------------------
(* What the message on the wire says, read off the parts it was built from. *)

QR(m) == m.hdr.flags2 \div 128
OPCODE(m) == (m.hdr.flags2 % 128) \div 8
TC(m) == (m.hdr.flags2 % 4) \div 2
RCODE(m) == m.hdr.flags3 % 16

\* The decoder was run on a buffer that holds the whole 12-byte header.
DecodedWithHeader == pc = "done" /\ sent.cut >= 12

\* The header passes the four checks.
HeaderPasses(m) == QR(m) = 1 /\ OPCODE(m) = 0 /\ TC(m) = 0 /\ RCODE(m) = 0

\* The counts of the header are the numbers of questions and records written.
CountsMatch(m) == m.hdr.qd = Len(m.qs) /\ m.hdr.an = Len(m.rs)

AllWellFormed(m) == \A i \in 1..Len(m.rs) : m.rs[i].wf

Failed(err) == out = [st |-> "returned", answers |-> <<>>, err |-> err]

-----------------------------------------------------------------------------
(* The header checks *)

\* C1: every message of at least 12 bytes whose QR bit is 0 makes parseResponse
\* return ErrNotAResponse and no answers, whatever OPCODE, TC, RCODE and the
\* rest of the message are.
C1_NotAResponse ==
    (DecodedWithHeader /\ QR(sent) = 0) => Failed("ErrNotAResponse")

\* A query with OPCODE 1, TC 1 and RCODE 3 in front of a body that is no
\* question was answered ErrNotAResponse.
C1_Witness ==
    /\ DecodedWithHeader /\ QR(sent) = 0
    /\ OPCODE(sent) # 0 /\ TC(sent) = 1 /\ RCODE(sent) = 3
    /\ sent.tail # <<>>
    /\ Failed("ErrNotAResponse")

\* C2: every message of at least 12 bytes with QR = 1 and OPCODE # 0 makes
\* parseResponse return ErrNotStandardQuery and no answers, whatever TC, RCODE
\* and the body are.
C2_NotStandardQuery ==
    (DecodedWithHeader /\ QR(sent) = 1 /\ OPCODE(sent) # 0)
        => Failed("ErrNotStandardQuery")

\* A response with OPCODE 8 (only the top bit of the field), TC 1 and RCODE 6
\* was answered ErrNotStandardQuery.
C2_Witness ==
    /\ DecodedWithHeader /\ QR(sent) = 1 /\ OPCODE(sent) >= 8
    /\ TC(sent) = 1 /\ RCODE(sent) = 6
    /\ Failed("ErrNotStandardQuery")

\* C3: every message of at least 12 bytes with QR = 1, OPCODE = 0 and TC = 1
\* makes parseResponse return ErrTruncated and no answers, whatever RCODE and
\* the body are.
C3_Truncated ==
    (DecodedWithHeader /\ QR(sent) = 1 /\ OPCODE(sent) = 0 /\ TC(sent) = 1)
        => Failed("ErrTruncated")

\* A truncated response with RCODE 15, cut in the middle of its question, was
\* answered ErrTruncated.
C3_Witness ==
    /\ DecodedWithHeader /\ QR(sent) = 1 /\ OPCODE(sent) = 0 /\ TC(sent) = 1
    /\ RCODE(sent) = 15
    /\ sent.cut > 12 /\ sent.cut < EndOfAnswers(sent)
    /\ Failed("ErrTruncated")

\* The error the RCODE table of the specification gives a code in 1..5.
C4_ErrorOf(code) ==
    CASE code = 1 -> "ErrFormatError"
      [] code = 2 -> "ErrServerFailure"
      [] code = 3 -> "ErrNameError"
      [] code = 4 -> "ErrNotImplemented"
      [] code = 5 -> "ErrRefused"

\* C4: every message of at least 12 bytes with QR = 1, OPCODE = 0, TC = 0 and
\* RCODE in 1..5 makes parseResponse return the error of that code and no
\* answers, also when the question and answer sections are missing or malformed.
C4_ServerError ==
    (DecodedWithHeader /\ QR(sent) = 1 /\ OPCODE(sent) = 0 /\ TC(sent) = 0
        /\ RCODE(sent) \in 1..5)
        => Failed(C4_ErrorOf(RCODE(sent)))

\* RCODE 3 came with QDCOUNT = 1 and no question at all, and RCODE 5 with a
\* body that is no question: ErrNameError and ErrRefused were returned.
C4_Witness ==
    /\ DecodedWithHeader /\ QR(sent) = 1 /\ OPCODE(sent) = 0 /\ TC(sent) = 0
    /\ sent.hdr.qd = 1
    /\ \/ RCODE(sent) = 3 /\ sent.cut = 12 /\ Failed("ErrNameError")
       \/ RCODE(sent) = 5 /\ sent.tail # <<>> /\ sent.cut = 15 /\ Failed("ErrRefused")

\* C5: every message of at least 12 bytes with QR = 1, OPCODE = 0, TC = 0 and
\* RCODE in 6..15 makes parseResponse return ErrCorrupted and no answers.
C5_UnknownCode ==
    (DecodedWithHeader /\ QR(sent) = 1 /\ OPCODE(sent) = 0 /\ TC(sent) = 0
        /\ RCODE(sent) \in 6..15)
        => Failed("ErrCorrupted")

\* C6: every buffer shorter than 12 bytes, the empty one included, makes
\* parseResponse return ErrCorrupted and no answers: no header field is read.
C6_ShortBuffer ==
    (pc = "done" /\ sent.cut < 12) => Failed("ErrCorrupted")

\* The empty buffer, and a buffer of 3..11 bytes whose flag byte says QR = 0,
\* were both answered ErrCorrupted.
C6_Witness ==
    /\ pc = "done" /\ Failed("ErrCorrupted")
    /\ \/ sent.cut = 0 /\ len(res) = 0
       \/ sent.cut \in 3..11 /\ QR(sent) = 0 /\ cap(res) > len(res)

-----------------------------------------------------------------------------
(* The walk over the questions and the answer records *)

\* C7: for every message that passes the header checks, a buffer that ends
\* before the QDCOUNT questions and the ANCOUNT answer records are complete
\* makes parseResponse return ErrCorrupted, wherever it ends.  (Stated for the
\* messages whose records are themselves well formed, so that nothing but the
\* early end is at fault.)
C7_EarlyEnd ==
    (DecodedWithHeader /\ HeaderPasses(sent) /\ CountsMatch(sent)
        /\ AllWellFormed(sent) /\ sent.cut < EndOfAnswers(sent))
        => Failed("ErrCorrupted")

\* C8: whenever parseResponse returns without error it returns exactly ANCOUNT
\* answers, the i-th carrying the name, type, class and raw 32-bit TTL of the
\* i-th record of the answer section.
C8_AnswersInWireOrder ==
    (pc = "done" /\ out.st = "returned" /\ out.err = "nil")
        => /\ CountsMatch(sent)
           /\ Len(out.answers) = sent.hdr.an
           /\ \A i \in 1..Len(out.answers) :
                 /\ out.answers[i].name = sent.rs[i].name
                 /\ out.answers[i].t = sent.rs[i].t
                 /\ out.answers[i].class = sent.rs[i].c
                 /\ out.answers[i].ttl = sent.rs[i].ttl

\* Two different records were decoded, the first owned by a compressed name,
\* the second with the TTL 2^32 - 1.
C8_Witness ==
    /\ pc = "done" /\ out.st = "returned" /\ out.err = "nil"
    /\ sent.rs = <<R1, R2>>
    /\ Len(out.answers) = 2
    /\ out.answers[1].name = NameABZ /\ out.answers[1].t = CNAME
    /\ out.answers[2].name = NameCABZ /\ out.answers[2].ttl = <<65535, 65535>>

\* No record parser matches (t, c), by the dispatch rule of the specification.
C9_NoParserFor(t, c) ==
    /\ t \notin {CNAME, MX, SRV, NS, TXT, SOA, PTR}
    /\ ~(t \in {A, AAAA} /\ c \in {ClassIN, ANYCLASS})

\* C9: a well-formed answer record whose (type, class) matches no record parser
\* never fails the decode: in a complete message of well-formed records the
\* decode succeeds, every such record yields an answer with its name, type,
\* class and TTL and an empty payload, and the records after it are decoded.
C9_UnknownRecordKept ==
    (DecodedWithHeader /\ HeaderPasses(sent) /\ CountsMatch(sent)
        /\ AllWellFormed(sent) /\ sent.cut >= EndOfAnswers(sent))
        => /\ out.st = "returned" /\ out.err = "nil"
           /\ Len(out.answers) = Len(sent.rs)
           /\ \A i \in 1..Len(sent.rs) :
                 C9_NoParserFor(sent.rs[i].t, sent.rs[i].c)
                    => out.answers[i] =
                          [name |-> sent.rs[i].name, t |-> sent.rs[i].t,
                           class |-> sent.rs[i].c, ttl |-> sent.rs[i].ttl,
                           parsed |-> NoRecord]

\* An A record of class CH was kept with an empty payload, and the CNAME
\* record after it was decoded.
C9_Witness ==
    /\ pc = "done" /\ out.st = "returned" /\ out.err = "nil"
    /\ sent.rs = <<R3, R1>>
    /\ Len(out.answers) = 2
    /\ out.answers[1].parsed = NoRecord /\ out.answers[1].class = CH
    /\ out.answers[2].parsed.kind = "CNAMERecord"

-----------------------------------------------------------------------------
(* The dispatch of parse *)

\* The payload variant of a type, as the specification names them.
C10_VariantOf(t) ==
    CASE t = A -> "ARecord"
      [] t = AAAA -> "AAAARecord"
      [] t = CNAME -> "CNAMERecord"
      [] t = MX -> "MXRecord"
      [] t = SRV -> "SRVRecord"
      [] t = NS -> "NSRecord"
      [] t = TXT -> "TXTRecord"
      [] t = SOA -> "SOARecord"
      [] t = PTR -> "PTRRecord"

\* The parser of t is selected for (t, c), by the rule of the claim.
C10_Selected(t, c) ==
    \/ t \in {CNAME, MX, SRV, NS, TXT, SOA, PTR}
    \/ t \in {A, AAAA} /\ c \in {ClassIN, ANYCLASS}

\* C10: parse(t, c, rdata) runs the parser of t for t in {CNAME, MX, SRV, NS,
\* TXT, SOA, PTR} whatever c is, and for t in {A, AAAA} exactly when c is IN or
\* ANYCLASS: on RDATA of the type's shape it returns the payload variant of t,
\* and no call returns a payload of another variant; for every other (t, c)
\* it returns no payload, whatever the RDATA.
C10_Dispatch ==
    pc = "parsed" =>
        IF C10_Selected(call.t, call.c)
        THEN /\ out.st = "ok" => out.v.kind = C10_VariantOf(call.t)
             /\ call.t \in call.fits => out.st = "ok"
        ELSE out = Ok(NoRecord)

\* parse returned an NS record for class 65535, an A record for ANYCLASS, and
\* nothing for an A record of class CS, each on RDATA of the right shape.
C10_Witness ==
    /\ pc = "parsed"
    /\ \/ call.t = NS /\ call.c = 65535 /\ out.st = "ok" /\ out.v.kind = "NSRecord"
       \/ call.t = AAAA /\ call.c = ANYCLASS /\ AAAA \in call.fits
            /\ out.st = "ok" /\ out.v.kind = "AAAARecord" /\ len(call.rdata) = 16
       \/ call.t = A /\ call.c = CS /\ A \in call.fits /\ out = Ok(NoRecord)


-----------------------------------------------------------------------------
(* Name decoding called on its own.                                          *)

\* The bytes the labels take on the wire: each its length plus one.
RECURSIVE LabelBytes(_)
LabelBytes(ls) == IF ls = << >> THEN 0 ELSE Len(Head(ls)) + 1 + LabelBytes(Tail(ls))

NameCalled(kind) == pc = "named" /\ call.kind = kind

\* C11: on a buffer that starts with an uncompressed name, parseName returns
\* the labels joined with '.' and consumes the labels' bytes (length + 1 each)
\* plus 1 for the terminator; what follows the terminator is not touched.
C11_Uncompressed ==
    NameCalled("plain")
        => out = [st |-> "ok", name |-> Join(call.labels, Dot),
                  offset |-> LabelBytes(call.labels) + 1]

\* "abolivier.bzh" followed by more bytes: 15 bytes consumed.
C11_Witness ==
    /\ NameCalled("plain")
    /\ call.labels = << LabelAbolivier, LabelBzh >>
    /\ len(call.b) > 15
    /\ out.st = "ok" /\ out.offset = 15 /\ Len(out.name) = 13

\* C12: on a name that ends in a pointer, parseName returns the dot-join of
\* the labels before the pointer followed by the labels of the name at the
\* pointer's offset in the whole message, and consumes the labels' bytes
\* plus 2.
C12_PointerName ==
    NameCalled("pointer")
        => out = [st |-> "ok",
                  name |-> Join(call.labels \o TargetLabels(call.ptr), Dot),
                  offset |-> LabelBytes(call.labels) + 2]

\* C13: a name whose pointers form a cycle makes parseName stop with a
\* failure, and parseResponse return ErrCorrupted.
C13_CycleFails ==
    /\ NameCalled("cycle") => out.st = "corrupted"
    /\ (pc = "done" /\ sent \in { [m EXCEPT !.cut = Len(WireMessage(m))] : m \in CyclicMessages })
           => Failed("ErrCorrupted")

\* C14: bytes that end before the name does, or point to or behind the end of
\* the message, make parseName stop with a failure: nothing is read outside
\* the buffer.
C14_ShortNameFails ==
    NameCalled("short") => out.st = "corrupted"


-----------------------------------------------------------------------------
(* Query encoding.                                                           *)

EncodeReturned == pc \in {"encoded", "encoded2"}

\* Every label has 1..63 bytes.
LabelsFit(ls) == \A i \in 1..Len(ls) : Len(ls[i]) \in 1..MaxLabelLen

\* A sequence without its first n elements.
Drop(bs, n) == SubSeq(bs, n + 1, Len(bs))

\* The query of the encoder's test without its ID.
ExpectedQuery ==
    <<1, 16, 0, 1, 0, 0, 0, 0, 0, 0, 7, 98, 114, 101, 110, 100, 97, 110,
      9, 97, 98, 111, 108, 105, 118, 105, 101, 114, 3, 98, 122, 104, 0, 0, 1, 0, 1>>

\* C15: for a name of labels of 1..63 bytes, encodeQuery returns 2 ID bytes,
\* the flag bytes 1 and 16, the counts 1, 0, 0, 0, each label behind its
\* length, a zero byte, and t and c as big-endian 16-bit values: 12 +
\* len(name) + 2 + 4 bytes; a second encoding of the same arguments differs
\* from the first at most in the 2 ID bytes.
C15_QueryBytes ==
    (EncodeReturned /\ LabelsFit(call.labels))
        => /\ out.st = "returned"
           /\ Len(out.q) = 12 + Len(call.fqdn) + 2 + 4
           /\ Drop(out.q, 2) = <<1, 16, 0, 1, 0, 0, 0, 0, 0, 0>> \o WireLabels(call.labels)
                                    \o <<0>> \o BE16(call.t) \o BE16(call.c)
           /\ pc = "encoded2" => Drop(out.q, 2) = Drop(query, 2)

\* The query of the encoder's test, encoded twice a second apart: the same
\* bytes behind two different IDs.
C15_Witness ==
    /\ pc = "encoded2"
    /\ call.labels = << LabelBrendan, LabelAbolivier, LabelBzh >>
    /\ call.t = A /\ call.c = ClassIN
    /\ Drop(out.q, 2) = ExpectedQuery
    /\ Take(out.q, 2) # Take(query, 2)

\* C16: for a name with a label of more than 63 bytes, encodeQuery returns an
\* encoding error and no message; no length byte it writes has its top two
\* bits set.
C16_LongLabelRejected ==
    (EncodeReturned /\ \E i \in 1..Len(call.labels) : Len(call.labels[i]) > MaxLabelLen)
        => /\ out.err = "EncodingError"
           /\ out.q = << >>


-----------------------------------------------------------------------------
(* The Lookup<T> methods.                                                    *)

LookupPcs == {"lookup", "exchange", "decode", "lookedup"}

LookupSucceeded == pc = "lookedup" /\ out.st = "returned" /\ out.err = "nil"

\* The elements of a sequence of answers or records that are of type t.
OfType(xs, t) == LET keep(x) == x.t = t IN SelectSeq(xs, keep)

\* C17: a Lookup<T> that succeeds returns recs and ttls of one length, recs
\* being the payloads and ttls the TTLs of the decoder's answers of type T, in
\* the decoder's order: the TTLs of the records of type T that were sent.
C17_RecsAndTTLs ==
    LookupSucceeded
        => LET kept == OfType(parseResponse(res).answers, call.t)
               sentT == OfType(sent.rs, call.t)
           IN /\ Len(out.recs) = Len(out.ttls)
              /\ out.recs = [i \in 1..Len(kept) |-> kept[i].parsed]
              /\ out.ttls = [i \in 1..Len(kept) |-> kept[i].ttl]
              /\ out.ttls = [i \in 1..Len(sentT) |-> sentT[i].ttl]
              /\ \A i \in 1..Len(out.recs) : out.recs[i].kind = recordKind(call.t)

\* LookupA on a CNAME record followed by an A record returns the A record
\* alone; on two A records it returns both, in their order.
C17_Witness ==
    /\ LookupSucceeded
    /\ call.t = A
    /\ \/ sent.rs = <<R1, R2>> /\ Len(out.recs) = 1 /\ out.ttls = << R2.ttl >>
       \/ sent.rs = <<R7, R2>> /\ out.ttls = << R7.ttl, R2.ttl >>

\* C18: LookupA and LookupAAAA on a Resolver whose Class is neither IN nor
\* ANYCLASS encode no query and make no exchange, and return ErrNotIN with no
\* records.
C18_NotINFirst ==
    (pc \in LookupPcs /\ call.t \in {A, AAAA} /\ call.class \notin {ClassIN, ANYCLASS})
        => /\ trace = << >>
           /\ query = << >>
           /\ pc \in {"lookup", "lookedup"}
           /\ pc = "lookedup" => out = Looked(<< >>, << >>, "ErrNotIN")

C18_Witness ==
    /\ pc = "lookedup"
    /\ call.t = AAAA /\ call.class = CH
    /\ out.err = "ErrNotIN" /\ out.recs = << >>
    /\ trace = << >>

\* C19: every call ends by returning a result or an error, whatever the types
\* and classes of the answer records.  Stated for the Lookup<T> calls that
\* are delivered a whole response of RCODE 0 whose question and records are
\* all well formed, so that the decoder itself finds no fault in the buffer.
C19_AlwaysReturns ==
    (pc = "lookedup" /\ Len(trace) = 3 /\ HeaderPasses(sent) /\ CountsMatch(sent)
        /\ AllWellFormed(sent) /\ sent.cut = Len(WireMessage(sent)))
        => out.st = "returned"

\* C20: whenever parseResponse returns an error it returns no answers.
C20_NoAnswersWithError ==
    (pc = "done" /\ out.st = "returned" /\ out.err # "nil") => out.answers = << >>

\* Two answers announced, the buffer ends right behind the first, which is
\* well formed: ErrCorrupted and no answers.
C20_Witness ==
    /\ pc = "done"
    /\ HeaderPasses(sent) /\ CountsMatch(sent) /\ AllWellFormed(sent)
    /\ Len(sent.rs) = 2
    /\ sent.cut = DNSMsgHeaderLen + Len(WireQuestions(sent)) + Len(WireRecord(sent.rs[1]))
    /\ Failed("ErrCorrupted")


-----------------------------------------------------------------------------
(* The record parsers on short RDATA.                                        *)

\* The two names every SOA RDATA of the calls starts with: "c" and a pointer.
SOANames == <<1, 99, 0, 192, 12>>

\* The RDATA is shorter than the fixed-width fields of the type.
ShortRdata(t, bs) ==
    CASE t = A -> Len(bs) < 4
      [] t = AAAA -> Len(bs) < 16
      [] t = MX -> Len(bs) < 2
      [] t = SRV -> Len(bs) < 6
      [] t = TXT -> Len(bs) = 0 \/ Len(bs) < 1 + bs[1]
      [] t = SOA -> /\ Len(bs) >= Len(SOANames)
                    /\ Take(bs, Len(SOANames)) = SOANames
                    /\ Len(bs) < Len(SOANames) + 20
      [] OTHER -> FALSE

\* parse(t, c, rdata) has run the parser of t.
ParserRan ==
    /\ pc = "parsed"
    /\ \/ call.t \in {MX, SRV, TXT, SOA}
       \/ call.t \in {A, AAAA} /\ call.c \in {ClassIN, ANYCLASS}

\* C21: a record parser given RDATA shorter than its fixed-width fields fails
\* with ErrCorrupted and returns no payload.
C21_ShortRdataRejected ==
    (ParserRan /\ ShortRdata(call.t, Bytes(call.rdata))) => out.st = "corrupted"


-----------------------------------------------------------------------------
(* Calls that run at the same time.                                          *)

\* What call p returns when it runs alone: on the buffer as it was at the
\* start, or in the second in which it drew its reqID.
Alone(p) ==
    IF call[p].op = "decode" THEN parseResponse(sent[call[p].b])
    ELSE Encoded(call[p].fqdn, call[p].t, call[p].c, query[p].at)

\* C22: in every interleaving of the steps of the calls, each call returns
\* what it returns when run alone, and the buffers stay as they were.
C22_NoSharedState ==
    /\ res = sent
    /\ \A p \in Procs : pc[p] = "done" => out[p] = Alone(p)

\* Two calls decoded the same buffer and returned its two answers, or one
\* decoded while the other encoded, or two encoded in different seconds.
C22_Witness ==
    /\ \A p \in Procs : pc[p] = "done"
    /\ \/ /\ call[1].op = "decode" /\ call[2] = call[1]
          /\ out[1].st = "returned" /\ Len(out[1].answers) = 2 /\ out[2] = out[1]
       \/ /\ call[1].op = "encode" /\ call[2] = call[1]
          /\ query[1].at # query[2].at /\ out[1] # out[2]


-----------------------------------------------------------------------------
(* The class of the query.                                                   *)

\* The last n elements of a sequence.
Last(bs, n) == SubSeq(bs, Len(bs) - n + 1, Len(bs))

\* C23: the question of the query a Lookup<T> call sends carries the class
\* the Resolver is configured with.
C23_QueryClass ==
    (pc \in {"exchange", "decode", "lookedup"} /\ query # << >>)
        => Last(query, 2) = BE16(call.class)


-----------------------------------------------------------------------------
(* parseSOA                                                                  *)

\* The value of a 32-bit wire value <<high half, low half>> read as signed:
\* v - 2^32 when v >= 2^31, written without leaving 32 bits.
Signed(v) == IF v[1] < 32768 THEN v[1] * 65536 + v[2] ELSE -1 - ((65535 - v[1]) * 65536 + (65535 - v[2]))

\* parse has run parseSOA on the RDATA of case d, p.res holding the message.
SOAParsed(d) ==
    pc = "parsed" /\ call.t = SOA /\ len(res) > 0 /\ Bytes(call.rdata) = SOAWire(d)

\* C24: parseSOA decodes the primary name server at the start of the RDATA
\* and the mailbox right behind it, and reads the five 32-bit integers right
\* behind the mailbox as serial, refresh, retry, expire and minimum, serial
\* and minimum unsigned, the other three signed.
C24_SOAFields ==
    \A d \in SOACases :
        SOAParsed(d)
            => /\ out.st = "ok"
               /\ out.v.kind = "SOARecord"
               /\ out.v.PrimaryNS = parseName(res, call.rdata).name
               /\ out.v.RespMailbox = parseName(res, From(call.rdata, Len(d.mname))).name
               /\ out.v.Serial = d.ints[1]
               /\ out.v.Refresh = Signed(d.ints[2])
               /\ out.v.Retry = Signed(d.ints[3])
               /\ out.v.Expire = Signed(d.ints[4])
               /\ out.v.Minimum = d.ints[5]

\* Both names end in pointers, and the integers have the top bit set:
\* serial 2^32 - 1 and minimum 2^31 + 1 are kept, refresh is -2^31, retry -1.
C24_Witness ==
    \E d \in SOACases :
        /\ SOAParsed(d)
        /\ d.mname = <<1, 99, 192, 12>> /\ d.rname = <<192, 14>>
        /\ out.st = "ok"
        /\ out.v.PrimaryNS = <<99, 46, 97, 46, 98, 122>> /\ out.v.RespMailbox = <<98, 122>>
        /\ out.v.Serial = <<65535, 65535>> /\ out.v.Minimum = <<32768, 1>>
        /\ out.v.Refresh = -2147483647 - 1 /\ out.v.Retry = -1 /\ out.v.Expire = 2147483647


-----------------------------------------------------------------------------
(* The steps of a lookup.                                                    *)

LookupSteps == <<"encode", "exchange", "decode">>

\* C25: the steps of a lookup are encode, exchange, decode, in this order and
\* each at most once; a failed exchange is returned with no records, no
\* decode having run; nothing follows a failed exchange or a failed decode.
C25_StepsInOrder ==
    pc \in LookupPcs
        => /\ Len(trace) <= 3
           /\ trace = Take(LookupSteps, Len(trace))
           /\ pc = "exchange" => trace = Take(LookupSteps, 1)
           /\ pc = "decode" => trace = Take(LookupSteps, 2)
           /\ (pc = "lookedup" /\ out.st = "returned" /\ out.err = "exchange")
                 => trace = Take(LookupSteps, 2) /\ out.recs = << >> /\ out.ttls = << >>
           /\ (pc = "lookedup" /\ out.st = "returned" /\ out.err = "nil")
                 => trace = LookupSteps

\* A lookup ended by a failed exchange, the decoder not run; and one ended
\* by a decode error after its one exchange.
C25_Witness ==
    /\ pc = "lookedup"
    /\ \/ out = Looked(<< >>, << >>, "exchange") /\ trace = <<"encode", "exchange">>
       \/ out = Looked(<< >>, << >>, "ErrCorrupted") /\ trace = LookupSteps


-----------------------------------------------------------------------------
(* The sections behind the answers.                                          *)

\* The message with no authority and additional records announced and
\* nothing behind its last answer.
WithoutTrail(m) == [m EXCEPT !.hdr.ns = 0, !.hdr.ar = 0, !.tail = << >>, !.cut = EndOfAnswers(m)]

\* C26: a message whose header, questions and ANCOUNT answer records are
\* well formed is decoded without error into its ANCOUNT answers, the same as
\* if NSCOUNT and ARCOUNT were 0 and nothing followed the last answer.
C26_TrailIgnored ==
    (pc = "done" /\ HeaderPasses(sent) /\ CountsMatch(sent) /\ AllWellFormed(sent)
        /\ sent.cut >= EndOfAnswers(sent))
        => /\ out.st = "returned" /\ out.err = "nil"
           /\ Len(out.answers) = sent.hdr.an
           /\ out = parseResponse(MakeSlice(Delivered(WithoutTrail(sent)), << >>))

\* Two answers decoded from a message that announces 65535 authority records
\* and one additional record and holds a broken label behind the answers;
\* and from one that announces an additional record and holds none.
C26_Witness ==
    /\ pc = "done" /\ out.st = "returned" /\ out.err = "nil"
    /\ sent.rs = <<R1, R2>> /\ Len(out.answers) = 2
    /\ sent.hdr.ar = 1
    /\ \/ sent.hdr.ns = 65535 /\ sent.tail = <<63, 255>>
       \/ sent.tail = << >> /\ sent.cut = EndOfAnswers(sent)


-----------------------------------------------------------------------------
(* The transaction ID.                                                       *)

\* The buffer with bytes 0 and 1 set to the ID id.
WithID(r, id) ==
    [r EXCEPT !.a = [k \in 1..Len(r.a) |->
                       IF k = r.lo + 1 THEN id \div 256
                       ELSE IF k = r.lo + 2 THEN id % 256
                       ELSE r.a[k]]]

OtherIDs == {0, 2 * 256 + 97, 65535}

\* C27: a message decodes to the same result whatever its bytes 0 and 1 are.
C27_IDIgnored ==
    (pc = "done" /\ len(res) >= 2)
        => \A id \in OtherIDs : parseResponse(WithID(res, id)) = out


-----------------------------------------------------------------------------
(* The encoder and the name decoder together.                                *)

\* parseName on the encoded query out.q from byte 12 on, p.res the query.
NameOfQuery == parseName(MakeSlice(out.q, << >>), From(MakeSlice(out.q, << >>), 12))

\* C28: for a name of labels of 1..63 bytes and every type and class,
\* parseName on the output of encodeQuery from byte 12 on returns the name and
\* a consumed count of len(name) + 2, and the 4 bytes behind that are the type
\* and the class.
C28_RoundTrip ==
    (EncodeReturned /\ LabelsFit(call.labels))
        => /\ NameOfQuery.st = "ok"
           /\ NameOfQuery.name = call.fqdn
           /\ NameOfQuery.offset = Len(call.fqdn) + 2
           /\ Len(out.q) = 12 + NameOfQuery.offset + 4
           /\ Drop(out.q, 12 + NameOfQuery.offset) = BE16(call.t) \o BE16(call.c)

\* A name with a label of 63 bytes between two others is read back.
C28_Witness ==
    /\ pc = "encoded"
    /\ call.labels = << <<100>>, LongestLabel, <<101>> >>
    /\ call.t = SOA
    /\ NameOfQuery = [st |-> "ok", name |-> <<100, Dot>> \o LongestLabel \o <<Dot, 101>>,
                      offset |-> 69]
    /\ Drop(out.q, 81) = BE16(SOA) \o BE16(call.c)

====
